---- MODULE Spec2Model ----
(***************************************************************************)
(* netlaborious: the batch command interpreter of netlaborious.py.         *)
(*                                                                         *)
(* Strings are sequences of chunks: a chunk is one significant character   *)
(* (" ", "\n", "'", "#", "-", "_") or a run of ordinary characters         *)
(* ("vsuser").  So '--src-vm' is <<"-","-","src","-","vm">>, and the       *)
(* string operations of the source (startswith, replace, lstrip, shlex)    *)
(* are computed chunk by chunk.                                            *)
(***************************************************************************)
EXTENDS Naturals, Sequences, FiniteSets, TLC

VARIABLES
  pc,                  \* position of main(): Start, Collecting, Validating,
                       \* Executing, InHandler, Done, Aborted, Crashed
  argv,                \* sys.argv[1:]
  batch_mode,          \* main: batch_mode
  stdin,               \* the lines of sys.stdin consumed so far, in order
  words,               \* main: words (Unbound until the first successful split)
  commands,            \* main: commands
  errors,              \* main: errors
  persistent_options,  \* main: persistent_options
  command_func,        \* main: command_func (UnboundName until first bound)
  funcs,               \* main: funcs
  k,                   \* number of entries of commands / funcs consumed by the current loop
  events,              \* everything observable, in order: log records, usage, echoes,
                       \* handler calls, returns and raises
  status,              \* the process's exit status (NoStatus while running)
  registry             \* the module global _COMMANDS, filled while the module is imported

vars == <<pc, argv, batch_mode, stdin, words, commands, errors,
          persistent_options, command_func, funcs, k, events, status, registry>>

----------------------------------------------------------------------------
(* Bounds *)

MaxLines == 3      \* lines read from stdin in one run

----------------------------------------------------------------------------
(* Values *)

None == <<"<None>">>            \* Python's None, as an option value
Unbound == <<"<unbound>">>      \* a local variable that was never assigned
UnboundName == <<"<unbound>">>
NoStatus == 99
EmptyDict == [x \in {} |-> None]

SP == " "
NL == "\n"
QUOTE == "'"
HASH == "#"
DASH == "-"
USCORE == "_"

\* dict.update / d[key] = value
DictSet(d, key, value) ==
  [x \in (DOMAIN d) \cup {key} |-> IF x = key THEN value ELSE d[x]]

\* d.copy(); d.update(other)
DictUpdate(d, other) ==
  [x \in (DOMAIN d) \cup (DOMAIN other) |-> IF x \in DOMAIN other THEN other[x] ELSE d[x]]

\* str.replace(old, new) for single-character old and new
RECURSIVE Replace(_, _, _)
Replace(s, old, new) ==
  IF s = <<>> THEN <<>>
  ELSE <<IF Head(s) = old THEN new ELSE Head(s)>> \o Replace(Tail(s), old, new)

\* str.lstrip(ch)
RECURSIVE LStrip(_, _)
LStrip(s, ch) ==
  IF s # <<>> /\ Head(s) = ch THEN LStrip(Tail(s), ch) ELSE s

\* str.startswith(ch)
StartsWith(s, ch) == s # <<>> /\ Head(s) = ch

----------------------------------------------------------------------------
(* shlex.split(line, comments=True): whitespace separates words, a quote   *)
(* groups up to the closing quote, '#' outside quotes discards the rest of *)
(* the line; an unterminated quote raises ValueError.                      *)

\* state: in_word (a token is being built, possibly empty after quotes),
\*        in_quote, tok (the token so far), out (the words so far)
RECURSIVE Lex(_, _, _, _, _)
Lex(line, in_word, in_quote, tok, out) ==
  IF line = <<>> THEN
    IF in_quote THEN [ok |-> FALSE, words |-> <<>>]
    ELSE [ok |-> TRUE, words |-> IF in_word THEN Append(out, tok) ELSE out]
  ELSE
    LET c == Head(line)
        rest == Tail(line)
    IN IF in_quote THEN
         IF c = QUOTE THEN Lex(rest, TRUE, FALSE, tok, out)
         ELSE Lex(rest, TRUE, TRUE, Append(tok, c), out)
       ELSE IF c = QUOTE THEN Lex(rest, TRUE, TRUE, tok, out)
       ELSE IF c = HASH THEN
         [ok |-> TRUE, words |-> IF in_word THEN Append(out, tok) ELSE out]
       ELSE IF c = SP \/ c = NL THEN
         Lex(rest, FALSE, FALSE, <<>>, IF in_word THEN Append(out, tok) ELSE out)
       ELSE Lex(rest, TRUE, FALSE, Append(tok, c), out)

shlex_split(line) == Lex(line, FALSE, FALSE, <<>>, <<>>)

----------------------------------------------------------------------------
(* parse_args(argv, lineno) *)

_NO_ARG_OPTIONS == { <<DASH, DASH, "help">>, <<DASH, DASH, "verbose">> }

\* One log record / observable event.  prefix is the N of '[line N] ' (0: no
\* prefix); arg holds the strings the message is formatted with.
Event(type, prefix, msg, arg) ==
  [type |-> type, prefix |-> prefix, msg |-> msg, arg |-> arg,
   values |-> <<>>, kwargs |-> EmptyDict]

ParseOk(command, options) ==
  [ok |-> TRUE, command |-> command, options |-> options,
   error |-> Event("error", 0, "", <<>>)]

\* raise ArgumentParseError(maybe_line + message)
ArgumentParseError(lineno, msg, arg) ==
  [ok |-> FALSE, command |-> None, options |-> EmptyDict,
   error |-> Event("error", lineno, msg, arg)]

RECURSIVE ParseLoop(_, _, _, _)
ParseLoop(ws, command, options, lineno) ==
  IF ws = <<>> THEN
    IF command = None
      THEN ArgumentParseError(lineno, "missing required command", <<>>)
      ELSE ParseOk(command, options)
  ELSE
    LET word == Head(ws) IN
    IF StartsWith(word, DASH) THEN
      IF word \in _NO_ARG_OPTIONS
        THEN ParseLoop(Tail(ws), command, DictSet(options, word, None), lineno)
      ELSE IF Tail(ws) = <<>>
        THEN ArgumentParseError(lineno, "option missing a value", <<word>>)
      ELSE ParseLoop(Tail(Tail(ws)), command,
                     DictSet(options, word, Head(Tail(ws))), lineno)
    ELSE IF command = None THEN ParseLoop(Tail(ws), word, options, lineno)
    ELSE ArgumentParseError(lineno, "multiple commands given", <<command, word>>)

\* a word that looks like a flag is never taken as a flag's value
RECURSIVE ParseLoopKeepsFlags(_, _, _, _)
ParseLoopKeepsFlags(ws, command, options, lineno) ==
  IF ws = <<>> THEN
    IF command = None
      THEN ArgumentParseError(lineno, "missing required command", <<>>)
      ELSE ParseOk(command, options)
  ELSE
    LET word == Head(ws) IN
    IF StartsWith(word, DASH) THEN
      IF word \in _NO_ARG_OPTIONS
        THEN ParseLoopKeepsFlags(Tail(ws), command, DictSet(options, word, None), lineno)
      ELSE IF Tail(ws) = <<>> \/ StartsWith(Head(Tail(ws)), DASH)
        THEN ArgumentParseError(lineno, "option missing a value", <<word>>)
      ELSE ParseLoopKeepsFlags(Tail(Tail(ws)), command,
                               DictSet(options, word, Head(Tail(ws))), lineno)
    ELSE IF command = None THEN ParseLoopKeepsFlags(Tail(ws), word, options, lineno)
    ELSE ArgumentParseError(lineno, "multiple commands given", <<command, word>>)

parse_args_keeps_flags(ws, lineno) == ParseLoopKeepsFlags(ws, None, EmptyDict, lineno)

\* lineno = 0 stands for lineno=None: maybe_line is then ''
parse_args(ws, lineno) == ParseLoop(ws, None, EmptyDict, lineno)

----------------------------------------------------------------------------
(* command(func): the registry, built from the handlers' parameter lists *)

vsuser == <<"vsuser">>
vshost == <<"vshost">>
vsport == <<"vsport">>
vm == <<"vm">>
ovf == <<"ovf">>
src_vm == <<"src", USCORE, "vm">>
dest_host == <<"dest", USCORE, "host">>
dest_vm == <<"dest", USCORE, "vm">>
dest_folder == <<"dest", USCORE, "folder">>
dest_datastore == <<"dest", USCORE, "datastore">>
resource_pool == <<"resource", USCORE, "pool">>

\* inspect.getargspec(func): args, and the number of defaults
clone ==
  [name |-> <<"clone">>,
   args |-> <<vsuser, src_vm, dest_host, dest_vm, <<"snapshot">>, vshost, vsport>>,
   defaults |-> 3]
info ==
  [name |-> <<"info">>, args |-> <<vsuser, vm, vshost, vsport>>, defaults |-> 2]
snapshot ==
  [name |-> <<"snapshot">>,
   args |-> <<vsuser, vm, <<"snapshot">>, vshost, vsport>>, defaults |-> 2]
upload ==
  [name |-> <<"upload">>,
   args |-> <<vsuser, ovf, vm, dest_host, dest_folder, dest_datastore,
              resource_pool, <<"snapshot">>, vshost, vsport>>,
   defaults |-> 3]

Handlers == {clone, info, snapshot, upload}

\* '--' + arg.replace('_', '-')
OptionOf(arg) == <<DASH, DASH>> \o Replace(arg, USCORE, DASH)

\* every parameter is taken as required, defaults or not
commandAllRequired(func) ==
  LET options == [i \in 1..Len(func.args) |-> OptionOf(func.args[i])]
  IN [name |-> func.name, args |-> func.args, defaults |-> func.defaults,
      _required_options |-> options,
      _optional_options |-> <<>>]

\* the function itself is returned, with the two attributes set on it
command(func) ==
  LET options == [i \in 1..Len(func.args) |-> OptionOf(func.args[i])]
      n == Len(func.args) - func.defaults
  IN [name |-> func.name, args |-> func.args, defaults |-> func.defaults,
      _required_options |-> SubSeq(options, 1, n),
      _optional_options |-> SubSeq(options, n + 1, Len(options))]

_COMMANDS ==
  [name \in {f.name : f \in Handlers} |->
     command(CHOOSE f \in Handlers : f.name = name)]

----------------------------------------------------------------------------
(* Inputs: the command lines and batch lines a run is given *)

ARGS == <<"ARGS">>
batch == <<"batch">>
bogus == <<"bogus">>
alice == <<"alice">>
bob == <<"bob">>
web01 == <<"web01">>
web02 == <<"web02">>
h1 == <<"h1">>
nightly == <<"nightly", SP, "1">>          \* a value holding a space

\* the words of a line separated by single spaces, ended by a newline
RECURSIVE Text(_)
Text(ws) ==
  IF ws = <<>> THEN <<NL>>
  ELSE IF Len(ws) = 1 THEN Head(ws) \o <<NL>>
  ELSE Head(ws) \o <<SP>> \o Text(Tail(ws))

L_blank == <<NL>>
L_comment == <<HASH, SP, "note", NL>>
L_args_user == Text(<<ARGS, OptionOf(vsuser), alice>>)
L_args_host == Text(<<ARGS, OptionOf(vshost), h1>>)
L_args_none == Text(<<ARGS>>)
L_info == Text(<<info.name, OptionOf(vm), web01>>)
L_info_full == Text(<<info.name, OptionOf(vsuser), bob, OptionOf(vm), web02>>)
\* snapshot --vsuser bob --vm web01 --snapshot 'nightly 1'   # keep
L_snapshot ==
  snapshot.name \o <<SP>> \o OptionOf(vsuser) \o <<SP>> \o bob \o <<SP>>
    \o OptionOf(vm) \o <<SP>> \o web01 \o <<SP>> \o OptionOf(<<"snapshot">>)
    \o <<SP, QUOTE>> \o nightly \o <<QUOTE, SP, SP, HASH, SP, "keep", NL>>
L_bogus == Text(<<bogus, OptionOf(vm), web01>>)
\* info --vm 'web01      (no closing quotation)
L_quote == info.name \o <<SP>> \o OptionOf(vm) \o <<SP, QUOTE>> \o web01 \o <<NL>>
L_multi == Text(<<info.name, web01>>)

LineSet == {L_blank, L_comment, L_args_user, L_args_host, L_args_none, L_info, L_info_full,
            L_snapshot, L_bogus, L_quote, L_multi}

ArgvSet ==
  { <<batch>>,
    <<OptionOf(<<"verbose">>), batch, OptionOf(vsuser), alice>>,
    <<OptionOf(<<"help">>)>>,
    <<OptionOf(<<"help">>), info.name>>,
    <<info.name, OptionOf(vsuser), bob, OptionOf(vm), web01, OptionOf(vshost), h1>>,
    <<info.name, OptionOf(vm), web01>>,
    <<snapshot.name, OptionOf(vm), web01>>,
    <<bogus>>,
    <<ARGS, OptionOf(vsuser), alice>>,
    <<info.name, OptionOf(vm)>> }

----------------------------------------------------------------------------
(* main() *)

Usage == Event("usage", 0, "", <<>>)
AbortSummary == Event("error", 0, "aborting due to errors; no commands were run.", <<>>)
\* an uncaught exception: the interpreter prints a traceback and exits with status 1
Traceback(exc) == Event("traceback", 0, exc, <<>>)

Init ==
  /\ pc = "Start"
  /\ argv \in ArgvSet
  /\ batch_mode = FALSE
  /\ stdin = <<>>
  /\ words = Unbound
  /\ commands = <<>>
  /\ errors = FALSE
  /\ persistent_options = EmptyDict
  /\ command_func = UnboundName
  /\ funcs = <<>>
  /\ k = 0
  /\ events = <<>>
  /\ status = NoStatus
  /\ registry = _COMMANDS

\* the options of the initial invocation become the persistent options
InheritTopLevel(options) == options

\* line 94: persistent_options = {}, whatever options the initial invocation gave
InitialPersistent(options) == EmptyDict

\* lines 53-68 and 88-94: parse the initial invocation, decide the mode
ParseInitial ==
  /\ pc = "Start"
  /\ LET r == parse_args(argv, 0) IN
     IF ~r.ok THEN
       /\ events' = events \o <<r.error, Usage>>
       /\ status' = 1
       /\ pc' = "Done"
       /\ UNCHANGED <<batch_mode, commands>>
     ELSE IF OptionOf(<<"help">>) \in DOMAIN r.options THEN
       /\ events' = Append(events, Usage)
       /\ status' = 0
       /\ pc' = "Done"
       /\ UNCHANGED <<batch_mode, commands>>
     ELSE
       /\ events' = IF OptionOf(<<"verbose">>) \in DOMAIN r.options
                      THEN Append(events, Event("debug", 0, "debug-level logging is enabled", <<>>))
                      ELSE events
       /\ batch_mode' = (r.command = batch)
       /\ commands' = IF r.command = batch THEN <<>>
                      ELSE <<[command |-> r.command, options |-> r.options, line |-> <<>>]>>
       /\ pc' = IF r.command = batch THEN "Collecting" ELSE "Validating"
       /\ UNCHANGED status
  \* lines 71 and 92-94
  /\ errors' = FALSE
  /\ funcs' = <<>>
  /\ persistent_options' = InitialPersistent(parse_args(argv, 0).options)
  /\ UNCHANGED <<registry, argv, stdin, words, command_func, k>>

\* lines 72-84: one iteration of the loop over sys.stdin
ReadLine(line) ==
  /\ pc = "Collecting"
  /\ Len(stdin) < MaxLines
  /\ LET n == Len(stdin) + 1
         s == shlex_split(line)
         words1 == IF s.ok THEN s.words ELSE words
         ev1 == IF s.ok THEN <<>> ELSE <<Event("error", n, "No closing quotation", <<>>)>>
         errors1 == IF s.ok THEN errors ELSE TRUE
     IN
     /\ stdin' = Append(stdin, line)
     /\ words' = words1
     /\ IF words1 = Unbound THEN
          \* 'if words:' reads a local that was never assigned
          /\ events' = events \o ev1 \o <<Traceback("UnboundLocalError")>>
          /\ errors' = errors1
          /\ status' = 1
          /\ pc' = "Crashed"
          /\ UNCHANGED commands
        ELSE IF words1 = <<>> THEN
          /\ events' = events \o ev1
          /\ errors' = errors1
          /\ UNCHANGED <<commands, status, pc>>
        ELSE
          LET r == parse_args(words1, n) IN
          IF r.ok THEN
            /\ commands' = Append(commands,
                 [command |-> r.command, options |-> r.options, line |-> line])
            /\ events' = events \o ev1
            /\ errors' = errors1
            /\ UNCHANGED <<status, pc>>
          ELSE
            /\ events' = events \o ev1 \o <<r.error>>
            /\ errors' = TRUE
            /\ UNCHANGED <<commands, status, pc>>
  /\ UNCHANGED <<registry, argv, batch_mode, persistent_options, command_func, funcs, k>>

\* collection errors do not stop the run
NeverAbort(errs) == FALSE

\* line 85: 'if errors:' after the loop over sys.stdin
AbortAfterCollecting(errs) == errs

\* lines 85-87 and 92-94: the input is exhausted
EndOfInput ==
  /\ pc = "Collecting"
  /\ IF AbortAfterCollecting(errors) THEN
       /\ events' = Append(events, AbortSummary)
       /\ status' = 1
       /\ pc' = "Aborted"
       /\ UNCHANGED <<errors, funcs, persistent_options>>
     ELSE
       /\ pc' = "Validating"
       /\ errors' = FALSE
       /\ funcs' = <<>>
       /\ persistent_options' = InitialPersistent(parse_args(argv, 0).options)
       /\ UNCHANGED <<events, status>>
  /\ UNCHANGED <<registry, argv, batch_mode, stdin, words, commands, command_func, k>>

\* the persistent value wins over the line's explicit one
PersistentWins(persistent, options) == DictUpdate(options, persistent)

\* lines 97-98: persistent_options.copy() updated with the line's options
persistent_options_copy(persistent, options) == DictUpdate(persistent, options)

\* the ARGS line is merged into the persistent options
ArgsMerges(persistent, options) == DictUpdate(persistent, options)

\* line 100: what an ARGS line leaves in persistent_options
ArgsAssign(persistent, options) == options

\* the line's options are written into persistent_options itself
PersistentAliased(persistent, options) == DictUpdate(persistent, options)

\* lines 97-98: the update goes to the copy; persistent_options keeps its value
PersistentAfterCommand(persistent, options) == persistent

\* line 96: the N of maybe_line (0: no prefix), n being enumerate's counter
maybe_line(n) == IF batch_mode THEN n ELSE 0

\* lines 109-115: the values of the required options that are present
RECURSIVE Values(_, _)
Values(required, opts) ==
  IF required = <<>> THEN <<>>
  ELSE (IF Head(required) \in DOMAIN opts THEN <<opts[Head(required)]>> ELSE <<>>)
         \o Values(Tail(required), opts)

\* only the first absent option is kept
FirstMissing(required, opts) ==
  LET m == SelectSeq(required, LAMBDA o : o \notin DOMAIN opts)
  IN IF m = <<>> THEN <<>> ELSE <<Head(m)>>

\* lines 110-115: the required options that are absent
Missing(required, opts) == SelectSeq(required, LAMBDA o : o \notin DOMAIN opts)

\* line 123: option.lstrip('-').replace('-', '_')
ArgName(option) == Replace(LStrip(option, DASH), DASH, USCORE)

\* an absent optional flag is passed as None
KwargsWithDefaults(optional, opts) ==
  [x \in {ArgName(optional[i]) : i \in DOMAIN optional} |->
     LET o == CHOOSE o \in {optional[i] : i \in DOMAIN optional} : ArgName(o) = x
     IN IF o \in DOMAIN opts THEN opts[o] ELSE None]

\* lines 121-125
Kwargs(optional, opts) ==
  LET present == {optional[i] : i \in {j \in 1..Len(optional) : optional[j] \in DOMAIN opts}}
  IN [a \in {ArgName(o) : o \in present} |->
        opts[CHOOSE o \in present : ArgName(o) = a]]

\* a later valid invocation clears the flag an earlier one set
ErrorsAfterForgets(errs, known, missing) == ~known \/ missing # <<>>

\* lines 107 and 119: errors = True, on an unknown command or missing options
ErrorsAfter(errs, known, missing) == errs \/ ~known \/ missing # <<>>

\* the new invocation is put in front of the queue
PrependFunc(fs, f) == <<f>> \o fs

\* lines 127-128: funcs.append(...)
AppendFunc(fs, f) == Append(fs, f)

\* lines 95-128: one iteration of the loop over commands
Validate ==
  /\ pc = "Validating"
  /\ k < Len(commands)
  /\ LET n == k + 1
         c == commands[n]
         opts == persistent_options_copy(persistent_options, c.options)
     IN
     /\ k' = n
     /\ IF c.command = ARGS THEN
          /\ persistent_options' = ArgsAssign(persistent_options, c.options)
          /\ UNCHANGED <<command_func, errors, funcs, events, status, pc>>
        ELSE
          LET known == c.command \in DOMAIN _COMMANDS
              cf == IF known THEN c.command ELSE command_func
              ev1 == IF known THEN <<>>
                     ELSE <<Event("error", maybe_line(n), "invalid command", <<c.command>>)>>
          IN
          /\ persistent_options' = PersistentAfterCommand(persistent_options, c.options)
          /\ command_func' = cf
          /\ IF cf = UnboundName THEN
               \* command_func was never assigned: UnboundLocalError at line 111
               /\ events' = events \o ev1 \o <<Traceback("UnboundLocalError")>>
               /\ errors' = TRUE
               /\ status' = 1
               /\ pc' = "Crashed"
               /\ UNCHANGED funcs
             ELSE
               LET d == _COMMANDS[cf]
                   values == Values(d._required_options, opts)
                   missing == Missing(d._required_options, opts)
                   ev2 == IF missing = <<>> THEN <<>>
                          ELSE <<Event("error", maybe_line(n), "requires options",
                                       <<c.command>> \o missing)>>
               IN
               /\ events' = events \o ev1 \o ev2
               /\ errors' = ErrorsAfter(errors, known, missing)
               /\ funcs' = AppendFunc(funcs,
                    [cf |-> cf, values |-> values,
                     kwargs |-> Kwargs(d._optional_options, opts), line |-> c.line])
               /\ UNCHANGED <<status, pc>>
  /\ UNCHANGED <<registry, argv, batch_mode, stdin, words, commands>>

\* validation errors do not stop the run
IgnoreErrors(errs) == FALSE

\* line 129: 'if errors:' after the loop over commands
AbortAfterValidating(errs) == errs

\* lines 129-131: the loop over commands is exhausted
EndValidate ==
  /\ pc = "Validating"
  /\ k = Len(commands)
  /\ IF AbortAfterValidating(errors) THEN
       /\ events' = Append(events, AbortSummary)
       /\ status' = 1
       /\ pc' = "Aborted"
       /\ UNCHANGED k
     ELSE
       /\ pc' = "Executing"
       /\ k' = 0
       /\ UNCHANGED <<events, status>>
  /\ UNCHANGED <<registry, argv, batch_mode, stdin, words, commands, errors,
                 persistent_options, command_func, funcs>>

CallEvent(f) ==
  [type |-> "call", prefix |-> 0, msg |-> "", arg |-> <<f.cf, f.line>>,
   values |-> f.values, kwargs |-> f.kwargs]

\* the line is not echoed
EchoNothing(line) == <<>>

\* lines 135-136: 'if line: print(line, file=sys.stderr, end='')'
Echo(line) == IF line # <<>> THEN <<Event("echo", 0, "", <<line>>)>> ELSE <<>>

\* lines 134-137: echo the line, then enter the handler
StartHandler ==
  /\ pc = "Executing"
  /\ k < Len(funcs)
  /\ LET f == funcs[k + 1] IN
     events' = events \o Echo(f.line) \o <<CallEvent(f)>>
  /\ pc' = "InHandler"
  /\ UNCHANGED <<registry, argv, batch_mode, stdin, words, commands, errors,
                 persistent_options, command_func, funcs, k, status>>

\* line 137: func() returns; the loop goes on
HandlerReturns ==
  /\ pc = "InHandler"
  /\ events' = Append(events, Event("return", 0, "", <<funcs[k + 1].cf>>))
  /\ k' = k + 1
  /\ pc' = "Executing"
  /\ UNCHANGED <<registry, argv, batch_mode, stdin, words, commands, errors,
                 persistent_options, command_func, funcs, status>>

\* line 137: func() raises; nothing in main() catches it
HandlerRaises ==
  /\ pc = "InHandler"
  /\ events' = events \o <<Event("raise", 0, "", <<funcs[k + 1].cf>>),
                           Traceback("HandlerError")>>
  /\ status' = 1
  /\ pc' = "Crashed"
  /\ UNCHANGED <<registry, argv, batch_mode, stdin, words, commands, errors,
                 persistent_options, command_func, funcs, k>>

\* lines 134-137 exhausted; main() returns None and sys.exit(None) is status 0
Finish ==
  /\ pc = "Executing"
  /\ k = Len(funcs)
  /\ status' = 0
  /\ pc' = "Done"
  /\ UNCHANGED <<registry, argv, batch_mode, stdin, words, commands, errors,
                 persistent_options, command_func, funcs, k, events>>

Next ==
  \/ ParseInitial
  \/ \E line \in LineSet : ReadLine(line)
  \/ EndOfInput
  \/ Validate
  \/ EndValidate
  \/ StartHandler
  \/ HandlerReturns
  \/ HandlerRaises
  \/ Finish

Spec == Init /\ [][Next]_vars

----------------------------------------------------------------------------
(* What the input says, line by line: the vocabulary of the properties *)

\* each line of LineSet, tokenized and parsed once
LineInfo ==
  [l \in LineSet |->
     LET s == shlex_split(l)
     IN [ok |-> s.ok, words |-> s.words, parsed |-> parse_args(s.words, 0)]]

LexBad(l) == ~LineInfo[l].ok
IsBlank(l) == LineInfo[l].ok /\ LineInfo[l].words = <<>>
Parsed(l) == LineInfo[l].parsed
ParseBad(l) == LineInfo[l].ok /\ LineInfo[l].words # <<>> /\ ~Parsed(l).ok
WellFormed(l) == LineInfo[l].ok /\ LineInfo[l].words # <<>> /\ Parsed(l).ok
IsArgsLine(l) == WellFormed(l) /\ Parsed(l).command = ARGS
IsReal(l) == WellFormed(l) /\ Parsed(l).command # ARGS

SetMax(S) == CHOOSE x \in S : \A y \in S : y <= x

\* the Persistent State in effect at line i: the options of the latest ARGS
\* line strictly before it, or empty
PersistentAt(in, i) ==
  LET S == {j \in 1..(i - 1) : IsArgsLine(in[j])}
  IN IF S = {} THEN EmptyDict ELSE Parsed(in[SetMax(S)]).options

Given(in, i) == (DOMAIN PersistentAt(in, i)) \cup (DOMAIN Parsed(in[i]).options)

\* the value flag x resolves to at line i (x \in Given(in, i))
ResolvedValue(in, i, x) ==
  IF x \in DOMAIN Parsed(in[i]).options THEN Parsed(in[i]).options[x]
  ELSE PersistentAt(in, i)[x]

UnknownAt(in, i) == IsReal(in[i]) /\ Parsed(in[i]).command \notin DOMAIN _COMMANDS

MissingAt(in, i) ==
  /\ IsReal(in[i])
  /\ Parsed(in[i]).command \in DOMAIN _COMMANDS
  /\ \E p \in DOMAIN _COMMANDS[Parsed(in[i]).command]._required_options :
       _COMMANDS[Parsed(in[i]).command]._required_options[p] \notin Given(in, i)

BadAt(in, i) == LexBad(in[i]) \/ ParseBad(in[i]) \/ UnknownAt(in, i) \/ MissingAt(in, i)
BadLines(in) == {i \in DOMAIN in : BadAt(in, i)}

\* the numbers of the real (non-blank, non-comment, non-ARGS) lines, in order
RealLines(in) == SelectSeq([i \in DOMAIN in |-> i], LAMBDA i : IsReal(in[i]))

\* the single-command invocation is in error
SingleBad ==
  LET r == parse_args(argv, 0) IN
  \/ ~r.ok
  \/ /\ r.command \notin {batch, ARGS}
     /\ OptionOf(<<"help">>) \notin DOMAIN r.options
     /\ \/ r.command \notin DOMAIN _COMMANDS
        \/ \E p \in DOMAIN _COMMANDS[r.command]._required_options :
             _COMMANDS[r.command]._required_options[p] \notin DOMAIN r.options

Calls == SelectSeq(events, LAMBDA e : e.type = "call")
Returns == SelectSeq(events, LAMBDA e : e.type = "return")
Reported == SelectSeq(events, LAMBDA e : e.type = "error" /\ e.msg # AbortSummary.msg)

----------------------------------------------------------------------------
(* C1: if any batch line, or the single command, yields a lex error, a     *)
(* parse error, an unknown command or missing required options, then no    *)
(* handler is invoked in the whole run: the run never is in Executing and  *)
(* never reports success.                                                  *)
C1_NothingRunsOnError ==
  (BadLines(stdin) # {} \/ SingleBad) =>
     /\ Calls = <<>>
     /\ pc \notin {"Executing", "InHandler"}
     /\ status # 0

\* a batch with a bad line and a valid real line whose handler was queued
C1_Witness ==
  /\ pc = "Aborted"
  /\ batch_mode
  /\ BadLines(stdin) # {}
  /\ \E i \in DOMAIN stdin : IsReal(stdin[i]) /\ ~BadAt(stdin, i)
  /\ funcs # <<>>
  /\ Calls = <<>>

IsPrefix(a, b) == Len(a) <= Len(b) /\ SubSeq(b, 1, Len(a)) = a
CountBefore(type, p) == Cardinality({q \in 1..(p - 1) : events[q].type = type})

\* <<handler name, source line>> of every handler call so far, in order
CallArgs == [p \in DOMAIN Calls |-> Calls[p].arg]
\* the same, as the input asks for it: one per real line, in input order
ExpectedCalls ==
  [p \in DOMAIN RealLines(stdin) |->
     <<Parsed(stdin[RealLines(stdin)[p]]).command, stdin[RealLines(stdin)[p]]>>]

(* C2: when a batch has no errors, the handlers are invoked in input order, *)
(* once per real line: the calls made so far are the first real lines in    *)
(* order, a handler starts only when every earlier one has returned, and a  *)
(* run that completes has called exactly one handler per real line.         *)
C2_InOrderOnce ==
  (batch_mode /\ BadLines(stdin) = {}) =>
     /\ IsPrefix(CallArgs, ExpectedCalls)
     /\ (pc = "Done" => CallArgs = ExpectedCalls)
     /\ \A p \in DOMAIN events :
          events[p].type = "call" => CountBefore("call", p) = CountBefore("return", p)

\* a completed batch of three lines that ran two different handlers
C2_Witness ==
  /\ pc = "Done"
  /\ batch_mode
  /\ Len(Calls) = 2
  /\ Calls[1].arg[1] # Calls[2].arg[1]
  /\ Len(stdin) = 3

\* the handler's parameter the flag at position q of the optional flags stands for
ParamOfOptional(cf, q) ==
  LET f == CHOOSE h \in Handlers : h.name = cf
  IN f.args[Len(f.args) - f.defaults + q]

(* C3: the options a real batch line is validated and invoked with are the  *)
(* persistent options in effect at that line (those of the latest ARGS line *)
(* before it) overridden by the line's own: every flag of the handler takes *)
(* the line's value when the line gives it, the persistent value when only  *)
(* the persistent set gives it, and is absent otherwise.                    *)
C3_ResolvedOptions ==
  batch_mode =>
    \A j \in DOMAIN funcs :
      LET i == RealLines(stdin)[j]
          d == _COMMANDS[funcs[j].cf]
          req == d._required_options
          opt == d._optional_options
          present == {p \in DOMAIN req : req[p] \in Given(stdin, i)}
      IN /\ Len(funcs[j].values) = Cardinality(present)
         /\ (present = DOMAIN req =>
               \A p \in DOMAIN req :
                 funcs[j].values[p] = ResolvedValue(stdin, i, req[p]))
         /\ \A q \in DOMAIN opt :
              IF opt[q] \in Given(stdin, i)
                THEN /\ ParamOfOptional(funcs[j].cf, q) \in DOMAIN funcs[j].kwargs
                     /\ funcs[j].kwargs[ParamOfOptional(funcs[j].cf, q)]
                          = ResolvedValue(stdin, i, opt[q])
                ELSE ParamOfOptional(funcs[j].cf, q) \notin DOMAIN funcs[j].kwargs

\* 'ARGS --vsuser alice' then 'info --vm web01': info ran with vsuser alice
C3_Witness ==
  /\ pc = "Done"
  /\ stdin = <<L_args_user, L_info>>
  /\ Len(Calls) = 1
  /\ Calls[1].values = <<alice, web01>>

\* the numbers of the lines that hold words, in order
WordLines(in) == SelectSeq([i \in DOMAIN in |-> i], LAMBDA i : ~IsBlank(in[i]))
\* the number of the line the validation loop is about to process
NextLine == IF k < Len(commands) THEN WordLines(stdin)[k + 1] ELSE Len(stdin) + 1

(* C4: a later ARGS line replaces the persistent options: throughout        *)
(* validation they are exactly the options of the last ARGS line processed  *)
(* (empty if none, or if that line gave no options), and they stay so.      *)
C4_ArgsReplaces ==
  batch_mode =>
    /\ (pc = "Validating" => persistent_options = PersistentAt(stdin, NextLine))
    /\ (pc \in {"Executing", "InHandler", "Done"}
          => persistent_options = PersistentAt(stdin, Len(stdin) + 1))

\* two ARGS lines processed: the flag of the first is gone
C4_Witness ==
  /\ pc = "Validating"
  /\ k = 2
  /\ SubSeq(stdin, 1, 2) = <<L_args_user, L_args_host>>
  /\ DOMAIN persistent_options = {OptionOf(vshost)}

(* C5: a failure raised by the handler of invocation i is contained: it    *)
(* does not crash the run, and the handlers of the later invocations are    *)
(* still invoked.                                                           *)
C5_HandlerFailureContained ==
  /\ (\E p \in DOMAIN events : events[p].type = "raise") => pc # "Crashed"
  /\ (pc \in {"Done", "Crashed"} /\ Calls # <<>>) => Len(Calls) = Len(funcs)

(* C6: an unknown command is recorded as an error and never raised: the run *)
(* does not end in an uncaught exception, and ends by reporting failure     *)
(* through the abort summary.                                               *)
C6_UnknownCommandRecorded ==
  (\E p \in DOMAIN events : events[p].msg = "invalid command") =>
     /\ pc # "Crashed"
     /\ (status # NoStatus => pc = "Aborted")

CollectKinds == {"No closing quotation", "missing required command",
                 "option missing a value", "multiple commands given"}
ValidateKinds == {"invalid command", "requires options"}
CollectBad(in) == {i \in DOMAIN in : LexBad(in[i]) \/ ParseBad(in[i])}
ValidateBad(in) == {i \in DOMAIN in : UnknownAt(in, i) \/ MissingAt(in, i)}
ReportedKinds == {Reported[p].msg : p \in DOMAIN Reported}

C8_ExactlyOneError ==
  (batch_mode /\ status # NoStatus /\ Cardinality(BadLines(stdin)) = 1) =>
     /\ Len(Reported) = 1
     /\ Reported[1].prefix \in BadLines(stdin)
     /\ Calls = <<>>

\* the error record e describes what is wrong with line n of the input
Describes(e, in, n) ==
  /\ n \in DOMAIN in
  /\ e.msg = "No closing quotation" => LexBad(in[n])
  /\ e.msg \in CollectKinds \ {"No closing quotation"} => ParseBad(in[n])
  /\ e.msg = "invalid command" => UnknownAt(in, n) /\ e.arg[1] = Parsed(in[n]).command
  /\ e.msg = "requires options" => MissingAt(in, n) /\ e.arg[1] = Parsed(in[n]).command

(* C9: in batch mode the N of every '[line N] <message>' is the 1-based     *)
(* position in the input of the line that caused the error, blank, comment  *)
(* and ARGS lines counted; in single-command mode there is no prefix.       *)
C9_ErrorLineNumbers ==
  \A p \in DOMAIN Reported :
    IF batch_mode THEN Describes(Reported[p], stdin, Reported[p].prefix)
    ELSE Reported[p].prefix = 0

(* C10: a line n that fails to tokenize records one error for line n, emits *)
(* no invocation and no other error for line n, and does not stop the       *)
(* collection of the later lines.                                           *)
C10_LexErrorIsolated ==
  \A n \in DOMAIN stdin :
    LexBad(stdin[n]) =>
      /\ Cardinality({p \in DOMAIN Reported : Reported[p].prefix = n}) = 1
      /\ \A j \in DOMAIN commands : commands[j].line # stdin[n]
      /\ pc # "Crashed"

\* the flags given to the invocation the validation loop is about to process
GivenNext ==
  IF batch_mode THEN Given(stdin, NextLine) ELSE DOMAIN parse_args(argv, 0).options

(* C11: for an invocation of a registered command, validation reports a     *)
(* missing-options error if and only if a required flag of the command is   *)
(* absent from the resolved options, and then reports exactly one error,    *)
(* naming the command and all the absent required flags in descriptor order.*)
C11_OneMissingOptionsError ==
  [][ (/\ pc = "Validating"
       /\ k < Len(commands)
       /\ k' = k + 1
       /\ commands[k + 1].command \in DOMAIN _COMMANDS)
      =>
      LET c == commands[k + 1].command
          absent == SelectSeq(_COMMANDS[c]._required_options,
                              LAMBDA o : o \notin GivenNext)
      IN /\ Len(events') = Len(events) + (IF absent = <<>> THEN 0 ELSE 1)
         /\ SubSeq(events', 1, Len(events)) = events
         /\ absent # <<>> =>
              /\ events'[Len(events')].type = "error"
              /\ events'[Len(events')].msg = "requires options"
              /\ events'[Len(events')].arg = <<c>> \o absent
    ]_vars

\* 'snapshot --vm web01' was validated: --vsuser and --snapshot reported together
C11_Witness ==
  \E p \in DOMAIN Reported :
    /\ Reported[p].msg = "requires options"
    /\ Reported[p].arg = <<snapshot.name, OptionOf(vsuser), OptionOf(<<"snapshot">>)>>

\* the initial invocation asks for the usage text
HelpRequested ==
  parse_args(argv, 0).ok /\ OptionOf(<<"help">>) \in DOMAIN parse_args(argv, 0).options

(* C12: the run reports success (status 0) only if every line validated and *)
(* every invoked handler completed; a lex, parse or validation failure      *)
(* gives a non-zero status, decided before any handler runs.  (A run that   *)
(* only prints the usage text validates and invokes nothing.)               *)
C12_SuccessOnlyIfAllValid ==
  /\ (status = 0 /\ ~HelpRequested) =>
        /\ BadLines(stdin) = {}
        /\ ~SingleBad
        /\ Len(Calls) = Len(funcs)
        /\ Len(Returns) = Len(Calls)
        /\ \A p \in DOMAIN events : events[p].type \notin {"raise", "traceback", "error"}
  /\ ((BadLines(stdin) # {} \/ SingleBad) /\ status # NoStatus) =>
        /\ status = 1
        /\ Calls = <<>>
  /\ (\E p \in DOMAIN events : events[p].type = "raise") => status = 1

\* a batch whose handlers all completed reports success
C12_Witness ==
  /\ status = 0
  /\ batch_mode
  /\ Len(Returns) = 2
  /\ Len(Returns) = Len(funcs)

(* C13: 'netlaborious --help', the --help flag with no command word, is     *)
(* accepted: the usage text is printed, the status is 0, no error is        *)
(* reported and no handler is invoked.                                      *)
C13_HelpAlone ==
  (argv = <<OptionOf(<<"help">>)>> /\ status # NoStatus) =>
     /\ status = 0
     /\ \E p \in DOMAIN events : events[p].type = "usage"
     /\ Reported = <<>>
     /\ Calls = <<>>

\* the options call number p was resolved from: its own line's, or the
\* command line's in single-command mode
CallGiven(p) ==
  IF batch_mode THEN Given(stdin, RealLines(stdin)[p])
  ELSE DOMAIN parse_args(argv, 0).options
CallValue(p, x) ==
  IF batch_mode THEN ResolvedValue(stdin, RealLines(stdin)[p], x)
  ELSE parse_args(argv, 0).options[x]
CallCommand(p) ==
  IF batch_mode THEN Parsed(stdin[RealLines(stdin)[p]]).command
  ELSE parse_args(argv, 0).command

(* C15: each handler is called with the values resolved for its own line:   *)
(* the required flags' values positionally in descriptor order, and an      *)
(* optional flag as a named argument if and only if it is present in that   *)
(* line's resolved options, with the resolved value.                        *)
C15_CallArguments ==
  \A p \in DOMAIN Calls :
    LET cf == CallCommand(p)
        req == _COMMANDS[cf]._required_options
        opt == _COMMANDS[cf]._optional_options
    IN /\ Calls[p].arg[1] = cf
       /\ Calls[p].values = [q \in DOMAIN req |-> CallValue(p, req[q])]
       /\ DOMAIN Calls[p].kwargs =
            {ParamOfOptional(cf, q) : q \in {r \in DOMAIN opt : opt[r] \in CallGiven(p)}}
       /\ \A q \in DOMAIN opt :
            opt[q] \in CallGiven(p) =>
              Calls[p].kwargs[ParamOfOptional(cf, q)] = CallValue(p, opt[q])

\* 'ARGS --vshost h1' in force: snapshot is called with its own three values
\* and vshost=h1, and without vsport
C15_Witness ==
  /\ batch_mode
  /\ \E p \in DOMAIN Calls :
       /\ Calls[p].arg[1] = snapshot.name
       /\ Calls[p].values = <<bob, web01, nightly>>
       /\ DOMAIN Calls[p].kwargs = {vshost}
       /\ Calls[p].kwargs[vshost] = h1

(* C17: the persistent options are changed only by ARGS lines: reading any  *)
(* line, and validating a real command line, leave them as they are, so an  *)
(* option given on a real command line is not carried to any later line.    *)
C17_OnlyArgsChangesPersistent ==
  [][ persistent_options' # persistent_options =>
        /\ pc = "Validating"
        /\ k < Len(commands)
        /\ commands[k + 1].command = ARGS
    ]_vars

\* 'info --vsuser bob --vm web02' then 'info --vm web01': the second has no
\* --vsuser, and nothing is persistent
C17_Witness ==
  /\ pc = "Validating"
  /\ batch_mode
  /\ Len(stdin) >= 2
  /\ SubSeq(stdin, 1, 2) = <<L_info_full, L_info>>
  /\ k = 2
  /\ Len(funcs) = 2
  /\ funcs[1].values = <<bob, web02>>
  /\ funcs[2].values = <<web01>>
  /\ persistent_options = EmptyDict

(* C18: in batch mode every handler call is immediately preceded by the     *)
(* echo of its own source line, the echo coming after the previous handler  *)
(* returned; every echo is immediately followed by the call of that line's  *)
(* handler; in single-command mode nothing is echoed.                       *)
C18_EchoBeforeCall ==
  \A p \in DOMAIN events :
    /\ (events[p].type = "call" /\ batch_mode) =>
          /\ p > 1
          /\ events[p - 1].type = "echo"
          /\ events[p - 1].arg = <<events[p].arg[2]>>
          /\ events[p].arg[2] = stdin[RealLines(stdin)[CountBefore("call", p) + 1]]
    /\ events[p].type = "echo" =>
          /\ batch_mode
          /\ p < Len(events)
          /\ events[p + 1].type = "call"
          /\ CountBefore("call", p) = CountBefore("return", p)
          /\ CountBefore("call", p) > 0 => events[p - 1].type = "return"

\* the second handler of a batch has started: its line was echoed after the
\* first handler returned
C18_Witness ==
  /\ batch_mode
  /\ pc = "InHandler"
  /\ Len(Calls) = 2
  /\ Len(events) >= 5
  /\ events[Len(events) - 1].type = "echo"
  /\ events[Len(events) - 1].arg = <<L_info>>
  /\ events[Len(events) - 2].type = "return"

\* no ARGS line comes before line i
BeforeFirstArgs(in, i) == \A j \in 1..(i - 1) : ~IsArgsLine(in[j])

(* C19: the persistent options are empty at the start of every run: the     *)
(* options of the initial 'batch' invocation are not inherited, and a batch *)
(* line before the first ARGS line is validated and invoked with its own    *)
(* options only.                                                            *)
C19_PersistentStartsEmpty ==
  /\ (pc = "Validating" /\ k = 0) => persistent_options = EmptyDict
  /\ batch_mode =>
       \A j \in DOMAIN funcs :
         LET i == RealLines(stdin)[j]
             own == DOMAIN Parsed(stdin[i]).options
             d == _COMMANDS[funcs[j].cf]
         IN BeforeFirstArgs(stdin, i) =>
              /\ Len(funcs[j].values) =
                   Cardinality({q \in DOMAIN d._required_options :
                                  d._required_options[q] \in own})
              /\ DOMAIN funcs[j].kwargs =
                   {ParamOfOptional(funcs[j].cf, q) :
                      q \in {r \in DOMAIN d._optional_options :
                               d._optional_options[r] \in own}}

\* 'batch --vsuser alice' with first line 'info --vm web01': --vsuser is missing
C19_Witness ==
  /\ pc = "Aborted"
  /\ OptionOf(vsuser) \in DOMAIN parse_args(argv, 0).options
  /\ stdin = <<L_info>>
  /\ \E p \in DOMAIN Reported :
       /\ Reported[p].msg = "requires options"
       /\ Reported[p].arg = <<info.name, OptionOf(vsuser)>>

----------------------------------------------------------------------------
(* Registration: the @command decorators run while the module is imported,  *)
(* before main().  Here any handler signature may be registered.            *)

MaxArgs == 3       \* parameters of a registered handler

a == <<"a">>
b == <<"b">>
c == <<"c">>
FuncNames == {<<"f">>, <<"g">>}
ParamNames == {a, b, c, src_vm}

\* parameter lists: no name twice
ArgLists ==
  UNION {{s \in [1..n -> ParamNames] : \A i, j \in 1..n : i # j => s[i] # s[j]}
           : n \in 0..MaxArgs}

\* def name(args): the last `defaults` parameters have a default value
FuncSet ==
  {[name |-> nm, args |-> as, defaults |-> nd] :
     nm \in FuncNames, as \in ArgLists, nd \in 0..MaxArgs}

InitCommand ==
  /\ pc = "Import"
  /\ registry = EmptyDict
  /\ argv = <<>>
  /\ batch_mode = FALSE
  /\ stdin = <<>>
  /\ words = Unbound
  /\ commands = <<>>
  /\ errors = FALSE
  /\ persistent_options = EmptyDict
  /\ command_func = UnboundName
  /\ funcs = <<>>
  /\ k = 0
  /\ events = <<>>
  /\ status = NoStatus

\* lines 140-155: @command applied to func (a module defines each handler
\* name once)
Register(func) ==
  /\ pc = "Import"
  /\ func.defaults <= Len(func.args)
  /\ func.name \notin DOMAIN registry
  /\ registry' = DictSet(registry, func.name, command(func))
  /\ UNCHANGED <<pc, argv, batch_mode, stdin, words, commands, errors,
                 persistent_options, command_func, funcs, k, events, status>>

NextCommand == \E func \in FuncSet : Register(func)

SpecCommand == InitCommand /\ [][NextCommand]_vars

\* the flag of a parameter: '--', then the name with '_' turned into '-'
FlagOf(arg) ==
  [j \in 1..(Len(arg) + 2) |->
     IF j <= 2 THEN "-" ELSE IF arg[j - 2] = "_" THEN "-" ELSE arg[j - 2]]

(* C14: registering a handler derives its descriptor from its parameter     *)
(* list: the parameters without a default, in declaration order, are the    *)
(* required flags, those with a default, in declaration order, the optional *)
(* flags, each flag being '--' and the parameter name with hyphens for      *)
(* underscores.                                                             *)
C14_DescriptorFromSignature ==
  \A nm \in DOMAIN registry :
    LET d == registry[nm]
        n == Len(d.args) - d.defaults
    IN /\ d.name = nm
       /\ d._required_options = [i \in 1..n |-> FlagOf(d.args[i])]
       /\ d._optional_options = [i \in 1..d.defaults |-> FlagOf(d.args[n + i])]

\* f(a, b, c=default) is registered with required [--a, --b], optional [--c],
\* g(src_vm) with required [--src-vm]
C14_Witness ==
  /\ DOMAIN registry = FuncNames
  /\ registry[<<"f">>].args = <<a, b, c>>
  /\ registry[<<"f">>]._required_options = << <<"-", "-", "a">>, <<"-", "-", "b">> >>
  /\ registry[<<"f">>]._optional_options = << <<"-", "-", "c">> >>
  /\ registry[<<"g">>]._required_options = << <<"-", "-", "src", "-", "vm">> >>

----------------------------------------------------------------------------
(* parse_args applied to any word sequence *)

MaxWords == 3      \* words of a parsed sequence

Vocabulary == {info.name, web01, OptionOf(vm), OptionOf(vsuser), OptionOf(<<"verbose">>)}

WordSeqs == UNION {[1..n -> Vocabulary] : n \in 0..MaxWords}

InitParse ==
  /\ pc = "Parse"
  /\ argv \in WordSeqs
  /\ registry = _COMMANDS
  /\ batch_mode = FALSE
  /\ stdin = <<>>
  /\ words = Unbound
  /\ commands = <<>>
  /\ errors = FALSE
  /\ persistent_options = EmptyDict
  /\ command_func = UnboundName
  /\ funcs = <<>>
  /\ k = 0
  /\ events = <<>>
  /\ status = NoStatus

\* lines 54-57: command, options = parse_args(argv), the error logged
ApplyParse ==
  /\ pc = "Parse"
  /\ pc' = "Parsed"
  /\ LET r == parse_args(argv, 0) IN
     /\ commands' = IF r.ok
                      THEN <<[command |-> r.command, options |-> r.options, line |-> <<>>]>>
                      ELSE <<>>
     /\ events' = IF r.ok THEN <<>> ELSE <<r.error>>
     /\ errors' = ~r.ok
  /\ UNCHANGED <<registry, argv, batch_mode, stdin, words, persistent_options,
                 command_func, funcs, k, status>>

NextParse == ApplyParse

SpecParse == InitParse /\ [][NextParse]_vars

\* what word i of ws is: a flag, the value of the flag before it, or a command word
RECURSIVE RoleAt(_, _)
RoleAt(ws, i) ==
  IF i > 1 /\ RoleAt(ws, i - 1) = "flag" /\ ws[i - 1] \notin _NO_ARG_OPTIONS THEN "value"
  ELSE IF Len(ws[i]) > 0 /\ ws[i][1] = "-" THEN "flag"
  ELSE "command"

CommandWords(ws) == {i \in DOMAIN ws : RoleAt(ws, i) = "command"}
\* a valued flag is the last word
Dangling(ws) ==
  ws # <<>> /\ RoleAt(ws, Len(ws)) = "flag" /\ ws[Len(ws)] \notin _NO_ARG_OPTIONS
\* the options the flags of ws give, a later occurrence overwriting an earlier one
FlagOptions(ws) ==
  [f \in {ws[i] : i \in {j \in DOMAIN ws : RoleAt(ws, j) = "flag"}} |->
     IF f \in _NO_ARG_OPTIONS THEN None
     ELSE ws[SetMax({j \in DOMAIN ws : RoleAt(ws, j) = "flag" /\ ws[j] = f}) + 1]]

(* C16: parse_args over any word sequence.  A word starting with '-' is a   *)
(* flag and takes the next word, whatever it looks like, as its value       *)
(* unless it is a no-value flag.  The parse succeeds with command c exactly *)
(* when one word is neither a flag nor a flag's value, and that word is c;  *)
(* it fails with 'multiple commands given' when there is a second such      *)
(* word, else with 'option X missing a value' when a valued flag X is the   *)
(* last word, else with 'missing required command' when there is none.      *)
C16_ParseArgs ==
  pc = "Parsed" =>
    LET cw == CommandWords(argv) IN
    IF Cardinality(cw) = 1 /\ ~Dangling(argv) THEN
      /\ Len(commands) = 1 /\ events = <<>>
      /\ commands[1].command = argv[CHOOSE i \in cw : TRUE]
      /\ commands[1].options = FlagOptions(argv)
    ELSE
      /\ commands = <<>> /\ Len(events) = 1
      /\ events[1].msg =
           (IF Cardinality(cw) >= 2 THEN "multiple commands given"
            ELSE IF Dangling(argv) THEN "option missing a value"
            ELSE "missing required command")
      /\ events[1].msg = "option missing a value" => events[1].arg = <<argv[Len(argv)]>>
      /\ events[1].msg = "multiple commands given" =>
           events[1].arg = <<argv[SetMax({i \in cw : \A j \in cw : i <= j})],
                             argv[SetMax({i \in cw : Cardinality({j \in cw : j < i}) = 1})]>>

\* '--vm --vsuser info': --vsuser is the value of --vm, info the command
C16_Witness ==
  /\ pc = "Parsed"
  /\ argv = <<OptionOf(vm), OptionOf(vsuser), info.name>>
  /\ Len(commands) = 1
  /\ commands[1].command = info.name
  /\ DOMAIN commands[1].options = {OptionOf(vm)}
  /\ commands[1].options[OptionOf(vm)] = OptionOf(vsuser)

====
